---- MODULE Spec2Model ----
(***************************************************************************)
(* A model of the few-shot behaviour-cloning data pipeline and policy:     *)
(*   - ConfigMinMaxNormalization and ReverseTrajDataset.__getitem__        *)
(*     (src/act/rl_bench/torch_data.py),                                   *)
(*   - load_data, the task filter and train/validation splitter            *)
(*     (src/act/rl_bench/torch_data.py),                                   *)
(*   - ACTPolicy.__call__ and its loss (src/act/policy.py).                *)
(* Each of the three has its own specification (SpecData, SpecSplit,       *)
(* SpecPolicy); the variables of the other two stay at their idle values.  *)
(* Real numbers are integers or exact fractions <<numerator, denominator>>.*)
(***************************************************************************)
EXTENDS Integers, Sequences, FiniteSets, TLC

VARIABLES
    \* ---- ReverseTrajDataset.__getitem__ ----
    d_pc,          \* "idle" | "ready" | "returned" | "raised"
    file_name,     \* self.file_list[index]: what the code reads of the path
    add_task_ind,  \* self.add_task_ind
    chunk_size,    \* self.chunk_size
    normalizer,    \* "none" (norm_bound is None) | "minmax"
    container,     \* how the pickled stream is stored: "list" | "ndarray"
    demo,          \* the episode: a sequence of frames
    sampler_draw,  \* the value self.sampler() returns, a fraction <<num, den>>
    data_batch,    \* the example returned
    d_error,       \* the exception raised, or "none"
    \* ---- load_data ----
    s_pc,          \* "idle" | "ready" | "done" | "raised"
    directory,     \* glob's result, the *.pickle files of dataset_dir
    task_name,
    few_shot,      \* 0 stands for a falsy few_shot (None or 0)
    train_split,   \* a fraction <<num, den>>
    file_list,     \* the filtered list, after random.shuffle
    train_file_list,
    test_file_list,
    \* ---- ACTPolicy.__call__ ----
    p_pc,          \* "idle" | "ready" | "returned"
    cfg,           \* args_override: kl_weight, few_shot, ent_weight, num_queries
    batch,         \* the arguments of the call
    calls,         \* the backbone invocations of the call, in order
    result         \* what the call returned

dataVars == <<d_pc, file_name, add_task_ind, chunk_size, normalizer, container,
              demo, sampler_draw, data_batch, d_error>>
splitVars == <<s_pc, directory, task_name, few_shot, train_split, file_list,
               train_file_list, test_file_list>>
policyVars == <<p_pc, cfg, batch, calls, result>>
vars == <<dataVars, splitVars, policyVars>>

\* Python's None (and an unbound local): the empty tuple, which no tensor,
\* mask, indicator or fraction of the model equals.
None == << >>

Min(a, b) == IF a < b THEN a ELSE b
Max(a, b) == IF a > b THEN a ELSE b
Abs(a) == IF a < 0 THEN -a ELSE a

\* s[1] + ... + s[n]
RECURSIVE SumTo(_, _)
SumTo(s, n) == IF n = 0 THEN 0 ELSE s[n] + SumTo(s, n - 1)
SumSeq(s) == SumTo(s, Len(s))

\* Python's seq[a:b] for 0 <= a, 0 <= b (both clipped to the length).
Slice(s, a, b) == SubSeq(s, Min(a, Len(s)) + 1, Min(b, Len(s)))

(***************************************************************************)
(* Bounds of the model.                                                    *)
(***************************************************************************)
MaxEpisodeLen == 3
MaxChunk == 3

(***************************************************************************)
(* ConfigMinMaxNormalization                                               *)
(***************************************************************************)
CONFIG_DIM == 7
Dims == 1..CONFIG_DIM

\* The bounds table handed to the normalizer (dimensions x 2): the first
\* joint ranges over (-1, 3), the others over (2, 6).
norm_bound == [i \in Dims |-> IF i = 1 THEN <<-1, 3>> ELSE <<2, 6>>]
_min == [i \in Dims |-> norm_bound[i][1]]
_max == [i \in Dims |-> norm_bound[i][2]]

validate_bounds(js) ==
    /\ \A i \in Dims : js[i] > _min[i]
    /\ \A i \in Dims : js[i] < _max[i]

\* X = 1.0 * (X - min) / (max - min); X = X * 2.0 - 1.0.  The division is
\* exact at every value the model applies it to (the bounds and midpoints).
transform(X) ==
    [i \in Dims |-> (2 * (X[i] - _min[i])) \div (_max[i] - _min[i]) - 1]

clamp(js) == [i \in Dims |-> Min(Max(js[i], _min[i]), _max[i])]

(***************************************************************************)
(* ReverseTrajDataset                                                      *)
(***************************************************************************)
ZeroVec == [i \in Dims |-> 0]

\* Joint configurations an episode may hold: strictly inside the bounds
\* (each joint at the midpoint of its range), above the bound of joint 1,
\* and on the bound of joint 1.
JointIn == [i \in Dims |-> IF i = 1 THEN 1 ELSE 4]
JointHigh == [i \in Dims |-> IF i = 1 THEN 5 ELSE 4]
JointEdge == [i \in Dims |-> IF i = 1 THEN 3 ELSE 4]

\* One timestep of an episode.  The gripper stream carries a distinct
\* non-zero value per kind of frame, so that a real entry of the chunk is
\* never taken for zero padding.
Frames == { [joint_positions |-> JointIn, gripper_open |-> 1],
            [joint_positions |-> JointHigh, gripper_open |-> 2],
            [joint_positions |-> JointEdge, gripper_open |-> 3] }

\* What __getitem__ reads of a path: whether it contains "forward",
\* whether it contains "backward", and the last character before ".pickle".
FileNames == [hasForward : BOOLEAN, hasBackward : BOOLEAN,
              last : {"1", "2", "3", "4", "5"}]

Episodes == UNION { [1..n -> Frames] : n \in 1..MaxEpisodeLen }

episode_len == Len(demo)
\* start_ts = int(self.sampler() * episode_len)
start_ts == (sampler_draw[1] * episode_len) \div sampler_draw[2]
end_ts == Min(episode_len, start_ts + chunk_size)

\* Lines 112-117: the slice of the position stream after the normalizer
\* loop.  In a list of arrays, chunk_data[i] = transform(js) rebinds the
\* slot and leaves js the original array, so clamp(js) clamps the raw
\* value; in a 2-D array js is a view of row i, the assignment writes the
\* row in place, and clamp(js) clamps the transformed value.
NormalizedStep(js) ==
    IF container = "ndarray" /\ validate_bounds(js)
    THEN clamp(transform(js))
    ELSE clamp(js)

PositionChunk ==
    LET chunk_data == Slice([t \in 1..episode_len |-> demo[t].joint_positions],
                            start_ts, end_ts)
    IN  IF normalizer = "none" THEN chunk_data
        ELSE [i \in 1..Len(chunk_data) |-> NormalizedStep(chunk_data[i])]

GripperChunk ==
    Slice([t \in 1..episode_len |-> demo[t].gripper_open], start_ts, end_ts)

\* data = torch.zeros(...); data[: end_ts - start_ts] = chunk
joint_action ==
    [i \in 1..chunk_size |->
        IF i <= end_ts - start_ts THEN PositionChunk[i] ELSE ZeroVec]

gripper_action ==
    [i \in 1..chunk_size |->
        IF i <= end_ts - start_ts THEN GripperChunk[i] ELSE 0]

\* Faulty variant of is_pad: the mask cleared up to end_ts instead of up to the
\* length of the slice.
is_pad_UpToEnd == [i \in 1..chunk_size |-> ~(i <= end_ts)]

\* is_pad = np.ones(chunk_size); is_pad[: end_ts - start_ts] = 0
is_pad == [i \in 1..chunk_size |-> ~(i <= end_ts - start_ts)]

\* Lines 147-151: the skill indicator bound inside `if self.add_task_ind`
\* (None: the name is left unbound).
SkillFromName ==
    IF ~add_task_ind THEN None
    ELSE IF file_name.hasBackward THEN <<0, 1>>
    ELSE IF file_name.hasForward THEN <<1, 0>>
    ELSE None

\* Lines 153-161: the chain on the last character; its else branch binds
\* both indicators to zeros.
EnvMatched == file_name.last \in {"1", "3", "5"}

env_ind ==
    IF file_name.last = "1" THEN <<1, 0, 0>>
    ELSE IF file_name.last = "3" THEN <<0, 1, 0>>
    ELSE IF file_name.last = "5" THEN <<0, 0, 1>>
    ELSE <<0, 0, 0>>

skill_ind == IF EnvMatched THEN SkillFromName ELSE <<0, 0>>

NoBatch == [kind |-> "none"]

DataInit ==
    /\ d_pc = "ready"
    /\ file_name \in FileNames
    /\ add_task_ind \in BOOLEAN
    /\ chunk_size \in 1..MaxChunk
    /\ normalizer \in {"none", "minmax"}
    /\ container \in {"list", "ndarray"}
    /\ demo \in Episodes
    /\ sampler_draw \in { <<k, Len(demo)>> : k \in 0..(MaxEpisodeLen - 1) }
    /\ sampler_draw[1] < sampler_draw[2]
    /\ data_batch = NoBatch
    /\ d_error = "none"

DataIdle ==
    /\ d_pc = "idle"
    /\ file_name = [hasForward |-> FALSE, hasBackward |-> FALSE, last |-> "1"]
    /\ add_task_ind = FALSE
    /\ chunk_size = 1
    /\ normalizer = "none"
    /\ container = "list"
    /\ demo = <<>>
    /\ sampler_draw = <<0, 1>>
    /\ data_batch = NoBatch
    /\ d_error = "none"

\* ReverseTrajDataset.__getitem__ on a well-formed episode (every required
\* stream present, all of one length, four 128x128 camera frames each).
getitem ==
    /\ d_pc = "ready"
    /\ IF skill_ind = None
       THEN \* line 163: skill_ind.squeeze() on an unbound local
            /\ d_pc' = "raised"
            /\ d_error' = "UnboundLocalError"
            /\ data_batch' = NoBatch
       ELSE /\ d_pc' = "returned"
            /\ d_error' = "none"
            /\ data_batch' = [kind |-> "example",
                              joint_action |-> joint_action,
                              gripper_action |-> gripper_action,
                              images |-> start_ts,
                              is_pad |-> is_pad,
                              skill_ind |-> skill_ind,
                              env_ind |-> env_ind]
    /\ UNCHANGED <<file_name, add_task_ind, chunk_size, normalizer, container,
                   demo, sampler_draw>>
    /\ UNCHANGED <<splitVars, policyVars>>

(***************************************************************************)
(* load_data: the task filter and the train/validation split               *)
(***************************************************************************)
MaxBoxFiles == 12
MaxFewShot == 2
SplitDen == 5

\* test_file_list = file_list[few_shot : few_shot + 10]
FewShotValLen == 10

\* A file "demo_<skill>_<ep><env>.pickle" of dataset_dir.
File(skill, ep, env) == [skill |-> skill, ep |-> ep, env |-> env]

\* The episodes of the other tasks that share the directory.
OtherFiles == << File("backward", 0, "1"), File("forward", 0, "2"),
                 File("forward", 0, "3"), File("backward", 0, "3"),
                 File("backward", 0, "5") >>

\* glob.glob(os.path.join(dataset_dir, "*.pickle")) of a directory holding
\* n forward episodes of the box next to the others.
Listing(n) == OtherFiles \o [i \in 1..n |-> File("forward", i, "1")]

Skills == {"forward", "backward"}
AnySkill(env) == { <<sk, env>> : sk \in Skills }

\* task_filter_map: each pattern as the set of <<skill, env>> whose file
\* names it finds (lines 235-273; the composite entries depend on few_shot).
task_filter_map(fs) ==
    [ box_open |-> {<<"forward", "1">>},
      box_close |-> {<<"backward", "1">>},
      box |-> AnySkill("1"),
      door_open |-> {<<"forward", "2">>},
      door_close |-> {<<"backward", "2">>},
      door |-> AnySkill("2"),
      toilet_seat_up |-> {<<"forward", "3">>},
      toilet_seat_down |-> {<<"backward", "3">>},
      toilet_seat |-> AnySkill("3"),
      grill_open |-> {<<"forward", "5">>},
      grill_close |-> {<<"backward", "5">>},
      grill |-> AnySkill("5"),
      bo_bc_tc |-> IF fs # 0 THEN {<<"forward", "3">>}
                   ELSE AnySkill("1") \cup {<<"backward", "3">>},
      bo_bc_go_gc_tc |-> IF fs # 0 THEN {<<"forward", "3">>}
                         ELSE AnySkill("1") \cup AnySkill("5") \cup {<<"backward", "3">>},
      go_gc_to_tc_bc |-> IF fs # 0 THEN {<<"forward", "1">>}
                         ELSE AnySkill("5") \cup AnySkill("3") \cup {<<"backward", "1">>},
      go_gc_to_tc_bo |-> IF fs # 0 THEN {<<"backward", "1">>}
                         ELSE AnySkill("5") \cup AnySkill("3") \cup {<<"forward", "1">> } ]

\* A task name as <<has the "sim_" prefix, the rest>>; line 277 strips the
\* prefix before the lookup.
TaskNames == { <<FALSE, "box_open">>, <<TRUE, "box">>, <<FALSE, "door">>,
               <<FALSE, "go_gc_to_tc_bc">>, <<FALSE, "bo_bc_tc">>,
               <<FALSE, "lift">> }

task_filter_key(name, fs) == task_filter_map(fs)[name[2]]

\* Lines 279-284: the files of the listing the pattern finds, in order.
Filtered(listing, key) ==
    LET Found(f) == <<f.skill, f.env>> \in key
    IN  SelectSeq(listing, Found)

Reverse(s) == [i \in 1..Len(s) |-> s[Len(s) + 1 - i]]
Rotate(s, r) == [i \in 1..Len(s) |-> s[((i - 1 + r) % Len(s)) + 1]]

\* random.shuffle(file_list): the orders the model draws from are the
\* rotations of the list and of its reverse.
ShuffleOrders(s) ==
    IF s = <<>> THEN { <<>> }
    ELSE { Rotate(s, r) : r \in 0..(Len(s) - 1) }
         \cup { Rotate(Reverse(s), r) : r \in 0..(Len(s) - 1) }

\* split_idx = int(len(file_list) * train_split)
split_idx(fl) == (Len(fl) * train_split[1]) \div train_split[2]

\* Faulty variant of TrainList: one file too many in the few-shot train list.
TrainList_OneMore(fl) ==
    IF few_shot # 0 THEN Slice(fl, 0, few_shot + 1)
    ELSE Slice(fl, 0, split_idx(fl))

\* Faulty variant of TestList: the validation slice starts one file early.
TestList_Overlap(fl) ==
    IF few_shot # 0
    THEN Slice(fl, Max(few_shot - 1, 0), few_shot + FewShotValLen)
    ELSE Slice(fl, Max(split_idx(fl) - 1, 0), Len(fl))

\* Lines 286-292.
TrainList(fl) ==
    IF few_shot # 0 THEN Slice(fl, 0, few_shot)
    ELSE Slice(fl, 0, split_idx(fl))

TestList(fl) ==
    IF few_shot # 0 THEN Slice(fl, few_shot, few_shot + FewShotValLen)
    ELSE Slice(fl, split_idx(fl), Len(fl))

SplitInit ==
    /\ s_pc = "ready"
    /\ directory \in { Listing(n) : n \in 0..MaxBoxFiles }
    /\ task_name \in TaskNames
    /\ few_shot \in 0..MaxFewShot
    /\ train_split \in { <<k, SplitDen>> : k \in 0..SplitDen }
    /\ file_list = <<>>
    /\ train_file_list = <<>>
    /\ test_file_list = <<>>

SplitIdle ==
    /\ s_pc = "idle"
    /\ directory = <<>>
    /\ task_name = <<FALSE, "box_open">>
    /\ few_shot = 0
    /\ train_split = <<0, 1>>
    /\ file_list = <<>>
    /\ train_file_list = <<>>
    /\ test_file_list = <<>>

\* load_data up to the two file lists the datasets are built from.
load_data ==
    /\ s_pc = "ready"
    /\ IF task_name[2] \notin DOMAIN task_filter_map(few_shot)
       THEN \* line 278: KeyError
            /\ s_pc' = "raised"
            /\ UNCHANGED <<file_list, train_file_list, test_file_list>>
       ELSE \E order \in ShuffleOrders(
                    Filtered(directory, task_filter_key(task_name, few_shot))) :
                /\ s_pc' = "done"
                /\ file_list' = order
                /\ train_file_list' = TrainList(order)
                /\ test_file_list' = TestList(order)
    /\ UNCHANGED <<directory, task_name, few_shot, train_split>>
    /\ UNCHANGED <<dataVars, policyVars>>

(***************************************************************************)
(* ACTPolicy                                                               *)
(***************************************************************************)
MaxBatch == 2
MaxChunkLen == 2
ActionDim == 2

\* Exact fractions <<numerator, denominator>> with a positive denominator,
\* kept in lowest terms by the arithmetic.
RECURSIVE GCD(_, _)
GCD(a, b) == IF b = 0 THEN a ELSE GCD(b, a % b)
Reduce(n, d) == LET g == GCD(Abs(n), d) IN <<n \div g, d \div g>>
Frac(n) == <<n, 1>>
FAdd(a, b) == Reduce(a[1] * b[2] + b[1] * a[2], a[2] * b[2])
FMul(a, b) == Reduce(a[1] * b[1], a[2] * b[2])
FEq(a, b) == a[1] * b[2] = b[1] * a[2]

KlWeights == {1, 10}
\* args_override["ent_weight"]: unset (None), 0, or 1/2.
EntWeights == {None, <<0, 1>>, <<1, 2>>}
\* What the backbone may predict for every element of a chunk, and the
\* latent mean it may return (one latent dimension, log-variance 0).
PredVals == {0, 2}
MuVals == {0, 2}
SkillInds == { <<1, 0>>, <<0, 1>> }

ConstTensor(B, T, c) ==
    [b \in 1..B |-> [t \in 1..T |-> [d \in 1..ActionDim |-> c]]]

\* The ground-truth chunk of a batch: every element in {0, 1, 2}.
ActionTensor(B, T) ==
    [b \in 1..B |-> [t \in 1..T |-> [d \in 1..ActionDim |-> (b + t + d) % 3]]]

\* The pad masks ReverseTrajDataset.__getitem__ produces, one row per
\* example: valid[b] real timesteps, then padding.
PadMasks(B, T) ==
    { [b \in 1..B |-> [t \in 1..T |-> t > valid[b]]] :
        valid \in [1..B -> 0..T] }

\* The mask of a batch without padding.
ActionPad(B, T) == [b \in 1..B |-> [t \in 1..T |-> FALSE]]

\* x[:, : n]
Truncate(x, n) == [b \in 1..Len(x) |-> Slice(x[b], 0, n)]

\* transforms.Normalize on one red-channel pixel p: (p - 0.485) / 0.229.
normalize(p) == <<1000 * p - 485, 229>>

\* F.l1_loss(actions, a_hat, reduction="none")
l1_loss(actions, a_hat) ==
    [b \in 1..Len(actions) |-> [t \in 1..Len(actions[b]) |->
        [d \in 1..ActionDim |-> Abs(actions[b][t][d] - a_hat[b][t][d])]]]

NumElements(x) == SumSeq([b \in 1..Len(x) |-> Len(x[b]) * ActionDim])

\* Faulty variant of MaskedMean: the mean of the errors with the mask forgotten.
MaskedMean_NoMask(all_l1, pad) ==
    << SumSeq([b \in 1..Len(all_l1) |->
            SumSeq([t \in 1..Len(all_l1[b]) |->
                SumSeq([d \in 1..ActionDim |-> all_l1[b][t][d]])])]),
       NumElements(all_l1) >>

\* (all_l1 * ~is_pad.unsqueeze(-1)).mean(): the masked errors summed,
\* divided by the number of elements of the tensor.
MaskedMean(all_l1, pad) ==
    << SumSeq([b \in 1..Len(all_l1) |->
            SumSeq([t \in 1..Len(all_l1[b]) |->
                SumSeq([d \in 1..ActionDim |->
                    IF pad[b][t] THEN 0 ELSE all_l1[b][t][d]])])]),
       NumElements(all_l1) >>

\* kl_divergence(mu, logvar)[0] at logvar = 0, where
\* klds = -0.5 * (1 + logvar - mu^2 - exp(logvar)) = mu^2 / 2:
\* summed over the latent dimension, averaged over the batch.
kl_divergence(mu) ==
    << SumSeq([b \in 1..Len(mu) |-> mu[b] * mu[b]]), 2 * Len(mu) >>

\* self.ent_weight if self.ent_weight else 0.01
EntWeightUsed(w) == IF w # None /\ w[1] # 0 THEN w ELSE <<1, 100>>

\* Faulty variant of TotalLoss: the uninformative component left out of the total.
TotalLoss_NoUninf(l1, l1_uninf, kl, kl_weight) ==
    FAdd(l1, FMul(kl, Frac(kl_weight)))

\* loss_dict["l1"] + loss_dict["l1_uninf"] + loss_dict["kl"] * self.kl_weight
TotalLoss(l1, l1_uninf, kl, kl_weight) ==
    FAdd(FAdd(l1, l1_uninf), FMul(kl, Frac(kl_weight)))

\* One invocation of self.model, as the backbone sees it.
ModelCall(qpos, image, actions, pad, skill, env) ==
    [qpos |-> qpos, image |-> image, env_state |-> None, actions |-> actions,
     is_pad |-> pad, skill_ind |-> skill, env_ind |-> env]

\* Faulty variant of ZeroSkill: the second pass keeps the caller's skill indicator.
ZeroSkill_Kept(skill) == skill

ZeroSkill(skill) == [b \in 1..Len(skill) |-> [i \in 1..Len(skill[b]) |-> 0]]

\* The second, uninformative pass of lines 41-59 runs when few_shot is falsy.
RunsUninformative(c) == ~c.few_shot

PolicyInit ==
    /\ p_pc = "ready"
    /\ cfg \in [kl_weight : KlWeights, few_shot : BOOLEAN,
                ent_weight : EntWeights, num_queries : 1..MaxChunkLen]
    /\ \E B \in 1..MaxBatch, T \in 1..MaxChunkLen, sk \in SkillInds :
         /\ T >= cfg.num_queries
         /\ \E pad \in PadMasks(B, T) \cup {None} :
              \E acts \in {ActionTensor(B, T), None} :
                 /\ acts # None => pad # None
                 /\ acts = None => pad \in {None, Truncate(ActionPad(B, T), T)}
                 /\ batch = [qpos |-> [b \in 1..B |-> b], image |-> 1,
                             actions |-> acts, is_pad |-> pad,
                             skill_ind |-> [b \in 1..B |-> sk],
                             env_ind |-> [b \in 1..B |-> <<1, 0, 0>>]]
    /\ calls = <<>>
    /\ result = [kind |-> "none"]

PolicyIdle ==
    /\ p_pc = "idle"
    /\ cfg = [kl_weight |-> 1, few_shot |-> FALSE, ent_weight |-> None,
              num_queries |-> 1]
    /\ batch = [kind |-> "none"]
    /\ calls = <<>>
    /\ result = [kind |-> "none"]

\* Lines 35-66 on the truncated chunk and the two reconstructions.
loss_dict(c, actions, pad, a_hat, a_hat_uninf, kl) ==
    LET l1 == MaskedMean(l1_loss(actions, a_hat), pad)
        l1_uninf ==
            IF RunsUninformative(c)
            THEN FMul(EntWeightUsed(c.ent_weight),
                      MaskedMean(l1_loss(actions, a_hat_uninf), pad))
            ELSE Frac(0)
    IN  [kind |-> "loss_dict", l1 |-> l1, l1_uninf |-> l1_uninf, kl |-> kl,
         loss |-> TotalLoss(l1, l1_uninf, kl, c.kl_weight)]

\* The backbone invocations of a training call, in order.
TrainingCalls(c, qpos, image, actions, pad, skill, env, a_hat, a_hat_uninf) ==
    LET first == [args |-> ModelCall(qpos, image, actions, pad, skill, env),
                  a_hat |-> a_hat]
        second == [args |-> ModelCall(qpos, image, actions, pad,
                                      ZeroSkill(skill), env),
                   a_hat |-> a_hat_uninf]
    IN  IF RunsUninformative(c) THEN <<first, second>> ELSE <<first>>

\* ACTPolicy.__call__ with actions: lines 26-67.
training ==
    /\ p_pc = "ready"
    /\ batch.actions # None
    /\ \E c \in PredVals, m \in MuVals, cu \in PredVals :
         /\ RunsUninformative(cfg) \/ cu = c
         /\ \E actions \in {Truncate(batch.actions, cfg.num_queries)},
               pad \in {Truncate(batch.is_pad, cfg.num_queries)},
               a_hat \in {ConstTensor(Len(batch.actions), cfg.num_queries, c)},
               a_hat_uninf \in
                   {ConstTensor(Len(batch.actions), cfg.num_queries, cu)} :
              /\ calls' = TrainingCalls(cfg, batch.qpos,
                              normalize(batch.image), actions, pad,
                              batch.skill_ind, batch.env_ind,
                              a_hat, a_hat_uninf)
              /\ result' = loss_dict(cfg, actions, pad, a_hat, a_hat_uninf,
                              kl_divergence([b \in 1..Len(actions) |-> m]))
    /\ p_pc' = "returned"
    /\ UNCHANGED <<cfg, batch>>
    /\ UNCHANGED <<dataVars, splitVars>>

\* ACTPolicy.__call__ without actions: lines 68-72.
inference ==
    /\ p_pc = "ready"
    /\ batch.actions = None
    /\ LET B == Len(batch.qpos)
           image == normalize(batch.image)
       IN  \E c \in PredVals :
             LET a_hat == ConstTensor(B, cfg.num_queries, c)
             IN  /\ calls' = << [args |-> ModelCall(batch.qpos, image, None,
                                     None, batch.skill_ind, batch.env_ind),
                                 a_hat |-> a_hat] >>
                 /\ result' = [kind |-> "a_hat", a_hat |-> a_hat]
    /\ p_pc' = "returned"
    /\ UNCHANGED <<cfg, batch>>
    /\ UNCHANGED <<dataVars, splitVars>>

(***************************************************************************)
(* The three specifications.                                               *)
(***************************************************************************)
InitData == DataInit /\ SplitIdle /\ PolicyIdle
NextData == getitem
SpecData == InitData /\ [][NextData]_vars

InitSplit == DataIdle /\ SplitInit /\ PolicyIdle
NextSplit == load_data
SpecSplit == InitSplit /\ [][NextSplit]_vars

InitPolicy == DataIdle /\ SplitIdle /\ PolicyInit
NextPolicy == training \/ inference
SpecPolicy == InitPolicy /\ [][NextPolicy]_vars

(***************************************************************************)
(* Properties of ReverseTrajDataset.__getitem__ (under SpecData)           *)
(***************************************************************************)
Returned == d_pc = "returned"

\* The start timestep and the number of real timesteps of the chunk, from
\* the inputs alone: s = int(u * L), valid = min(L, s + chunk_size) - s.
SampledStart == (sampler_draw[1] * Len(demo)) \div sampler_draw[2]
ValidLen == Min(Len(demo), SampledStart + chunk_size) - SampledStart

\* C1: the example returned has a pad mask of length chunk_size whose
\* first min(L, s + chunk_size) - s entries are false and whose other
\* entries are true, and joint_action and gripper_action are zero at
\* every index where the mask is true.
C1_ChunkPadding ==
    Returned =>
        /\ DOMAIN data_batch.is_pad = 1..chunk_size
        /\ DOMAIN data_batch.joint_action = 1..chunk_size
        /\ DOMAIN data_batch.gripper_action = 1..chunk_size
        /\ \A i \in 1..chunk_size :
              /\ data_batch.is_pad[i] = (i > ValidLen)
              /\ data_batch.is_pad[i] =>
                    /\ data_batch.joint_action[i] = ZeroVec
                    /\ data_batch.gripper_action[i] = 0

\* An example whose window runs past the end of a longer episode: real
\* timesteps first, padding after them.
C1_Witness ==
    /\ Returned
    /\ SampledStart > 0
    /\ ValidLen >= 1
    /\ ValidLen < chunk_size
    /\ data_batch.is_pad[chunk_size]
    /\ ~data_batch.is_pad[1]
    /\ data_batch.joint_action[1] # ZeroVec

\* A file named by the convention: exactly one of the two skill substrings
\* and an environment digit 1 (box), 2 (door), 3 (toilet seat), 5 (grill).
ConventionalName ==
    /\ file_name.hasForward # file_name.hasBackward
    /\ file_name.last \in {"1", "2", "3", "5"}

\* C4: with indicators enabled the skill indicator of the example is
\* [1,0] for a "forward" file and [0,1] for a "backward" file, whatever
\* the environment digit.
C4_SkillFromSubstring ==
    (d_pc # "ready" /\ add_task_ind /\ ConventionalName) =>
        /\ Returned
        /\ data_batch.skill_ind =
              IF file_name.hasForward THEN <<1, 0>> ELSE <<0, 1>>

\* C5: for every file name and both values of add_task_ind the call
\* completes and returns an environment indicator of length 3, a function
\* of the trailing digit alone, and a skill indicator of length 2.
C5_IndicatorsAlwaysReturned ==
    d_pc # "ready" =>
        /\ Returned
        /\ Len(data_batch.skill_ind) = 2
        /\ Len(data_batch.env_ind) = 3
        /\ data_batch.env_ind =
              IF file_name.last = "1" THEN <<1, 0, 0>>
              ELSE IF file_name.last = "3" THEN <<0, 1, 0>>
              ELSE IF file_name.last = "5" THEN <<0, 0, 1>>
              ELSE <<0, 0, 0>>

\* C6: with a normalizer every real timestep js of the position chunk is
\* stored as clamp(transform(js)) when validate_bounds(js) holds and as
\* clamp(js) when it does not.
C6_TransformThenClamp ==
    (Returned /\ normalizer = "minmax") =>
        \A i \in 1..ValidLen :
            LET js == demo[SampledStart + i].joint_positions
            IN  data_batch.joint_action[i] =
                    IF validate_bounds(js) THEN clamp(transform(js))
                    ELSE clamp(js)

(***************************************************************************)
(* Properties of load_data (under SpecSplit)                               *)
(***************************************************************************)
SplitDone == s_pc = "done"

Elems(s) == { s[i] : i \in 1..Len(s) }
NoDuplicates(s) == \A i, j \in 1..Len(s) : s[i] = s[j] => i = j

\* The filtered candidates: the files of the directory the task's pattern
\* finds.
Candidates ==
    { directory[i] : i \in { j \in 1..Len(directory) :
        <<directory[j].skill, directory[j].env>>
            \in task_filter_key(task_name, few_shot) } }

\* The files of the shuffled list that are in neither list.
Unused ==
    Slice(file_list, Len(train_file_list) + Len(test_file_list),
          Len(file_list))

\* C2: the train and validation lists share no file, both hold only
\* filtered candidates, and train + validation + the unused remainder is
\* exactly the candidate set, each file once; without few_shot the train
\* list is the prefix of length floor(len * train_split) and validation
\* is the whole remainder.
C2_SplitPartition ==
    SplitDone =>
        /\ Elems(train_file_list) \cap Elems(test_file_list) = {}
        /\ Elems(train_file_list) \subseteq Candidates
        /\ Elems(test_file_list) \subseteq Candidates
        /\ train_file_list \o test_file_list \o Unused = file_list
        /\ Elems(file_list) = Candidates
        /\ NoDuplicates(train_file_list \o test_file_list \o Unused)
        /\ few_shot = 0 =>
              /\ Len(train_file_list) =
                    (Len(file_list) * train_split[1]) \div train_split[2]
              /\ train_file_list \o test_file_list = file_list

\* A few-shot split that leaves files unused, next to a non-empty train
\* and validation list.
C2_Witness ==
    /\ SplitDone
    /\ few_shot # 0
    /\ train_file_list # <<>>
    /\ test_file_list # <<>>
    /\ Unused # <<>>

\* C3: with few_shot = k >= 1 and n matched files the train list is the
\* first min(k, n) files of the shuffled list, the validation list is the
\* min(10, max(0, n - k)) files at positions k .. k+9, and the files from
\* position k+10 on are in neither list.
C3_FewShotSizes ==
    (SplitDone /\ few_shot # 0) =>
        LET n == Len(file_list)
            k == few_shot
        IN  /\ n = Cardinality(Candidates)
            /\ Len(train_file_list) = Min(k, n)
            /\ \A i \in 1..Len(train_file_list) :
                  train_file_list[i] = file_list[i]
            /\ Len(test_file_list) = Min(10, Max(0, n - k))
            /\ \A i \in 1..Len(test_file_list) :
                  test_file_list[i] = file_list[k + i]
            /\ \A i \in (k + 10 + 1)..n :
                  /\ file_list[i] \notin Elems(train_file_list)
                  /\ file_list[i] \notin Elems(test_file_list)

\* A few-shot split of more than k + 10 matched files, with k >= 2.
C3_Witness ==
    /\ SplitDone
    /\ few_shot >= 2
    /\ Len(file_list) > few_shot + 10
    /\ Len(train_file_list) = few_shot
    /\ Len(test_file_list) = 10

(***************************************************************************)
(* Properties of ACTPolicy.__call__ (under SpecPolicy)                     *)
(***************************************************************************)
TrainingReturned == p_pc = "returned" /\ batch.actions # None
InferenceReturned == p_pc = "returned" /\ batch.actions = None

\* The timesteps the loss sees: the first num_queries of the chunk.
Steps == 1..cfg.num_queries
Rows == 1..Len(batch.qpos)

\* Over the unpadded timesteps of the truncated chunk: the summed absolute
\* error of a reconstruction, and the number of elements.
UnpaddedError(a_hat) ==
    SumSeq([b \in Rows |-> SumSeq([t \in Steps |->
        IF batch.is_pad[b][t] THEN 0
        ELSE SumSeq([d \in 1..ActionDim |->
                Abs(batch.actions[b][t][d] - a_hat[b][t][d])])])])

UnpaddedCount ==
    SumSeq([b \in Rows |-> SumSeq([t \in Steps |->
        IF batch.is_pad[b][t] THEN 0 ELSE ActionDim])])

AllCount == Len(batch.qpos) * cfg.num_queries * ActionDim

\* C7 as stated: l1 is the summed error over the unpadded timesteps
\* divided by the number of unpadded elements.
C7_MeanOverUnpadded ==
    (TrainingReturned /\ UnpaddedCount > 0) =>
        FEq(result.l1, <<UnpaddedError(calls[1].a_hat), UnpaddedCount>>)

\* C7 as amended: l1 is the summed error over the unpadded timesteps
\* divided by the number of all elements of the truncated chunk (batch x
\* num_queries x action dimension), the padded ones included.
C7_MeanOverAllElements ==
    TrainingReturned =>
        FEq(result.l1, <<UnpaddedError(calls[1].a_hat), AllCount>>)

\* A training call on a chunk with both padded and unpadded timesteps in
\* which the padded ones carry an error too.
C7_Witness ==
    /\ TrainingReturned
    /\ UnpaddedCount > 0
    /\ UnpaddedCount < AllCount
    /\ result.l1[1] > 0
    /\ \E b \in Rows, t \in Steps :
          /\ batch.is_pad[b][t]
          /\ batch.actions[b][t][1] # calls[1].a_hat[b][t][1]

\* C8: in training the mapping returned holds l1, l1_uninf, kl and loss
\* with loss = l1 + l1_uninf + kl * kl_weight; l1_uninf comes from a
\* second backbone pass only when few_shot is disabled, and with few_shot
\* enabled it is 0 and loss = l1 + kl * kl_weight.
C8_LossDecomposition ==
    TrainingReturned =>
        /\ result.kind = "loss_dict"
        /\ {"l1", "l1_uninf", "kl", "loss"} \subseteq DOMAIN result
        /\ FEq(result.loss,
               FAdd(FAdd(result.l1, result.l1_uninf),
                    FMul(result.kl, Frac(cfg.kl_weight))))
        /\ cfg.few_shot =>
              /\ Len(calls) = 1
              /\ result.l1_uninf[1] = 0
              /\ FEq(result.loss,
                     FAdd(result.l1, FMul(result.kl, Frac(cfg.kl_weight))))
        /\ ~cfg.few_shot =>
              /\ Len(calls) = 2
              /\ UnpaddedError(calls[2].a_hat) = 0 => result.l1_uninf[1] = 0

\* A training call without few_shot whose three components are all
\* non-zero.
C8_Witness ==
    /\ TrainingReturned
    /\ ~cfg.few_shot
    /\ result.l1[1] > 0
    /\ result.l1_uninf[1] > 0
    /\ result.kl[1] > 0
    /\ cfg.kl_weight > 1

\* C9: with few_shot disabled the uninformative component is the
\* configured entropy weight times the masked L1 loss of the zero-skill
\* reconstruction, for every configured weight, 0 included; 0.01 is used
\* only when no weight is configured.
C9_EntWeightScales ==
    (TrainingReturned /\ ~cfg.few_shot) =>
        FEq(result.l1_uninf,
            FMul(IF cfg.ent_weight = None THEN <<1, 100>> ELSE cfg.ent_weight,
                 <<UnpaddedError(calls[2].a_hat), AllCount>>))

\* C10: inference invokes the backbone once, without actions and without a
\* pad mask, and returns only the predicted chunk; training truncates
\* actions and pad mask to num_queries, invokes the backbone with the
\* caller's conditioning and, only when few_shot is disabled, a second
\* time with the same joint state, image, truncated actions, pad mask and
\* environment indicator but an all-zero skill indicator.
C10_TwoModeDispatch ==
    /\ InferenceReturned =>
          /\ Len(calls) = 1
          /\ calls[1].args.actions = None
          /\ calls[1].args.is_pad = None
          /\ calls[1].args.skill_ind = batch.skill_ind
          /\ result = [kind |-> "a_hat", a_hat |-> calls[1].a_hat]
    /\ TrainingReturned =>
          /\ result.kind = "loss_dict"
          /\ Len(calls) = IF cfg.few_shot THEN 1 ELSE 2
          /\ \A b \in Rows :
                /\ Len(calls[1].args.actions[b]) = cfg.num_queries
                /\ Len(calls[1].args.is_pad[b]) = cfg.num_queries
                /\ \A t \in Steps :
                      /\ calls[1].args.actions[b][t] = batch.actions[b][t]
                      /\ calls[1].args.is_pad[b][t] = batch.is_pad[b][t]
          /\ calls[1].args.qpos = batch.qpos
          /\ calls[1].args.skill_ind = batch.skill_ind
          /\ calls[1].args.env_ind = batch.env_ind
          /\ ~cfg.few_shot =>
                /\ calls[2].args.qpos = calls[1].args.qpos
                /\ calls[2].args.image = calls[1].args.image
                /\ calls[2].args.actions = calls[1].args.actions
                /\ calls[2].args.is_pad = calls[1].args.is_pad
                /\ calls[2].args.env_ind = calls[1].args.env_ind
                /\ \A b \in Rows : calls[2].args.skill_ind[b] = <<0, 0>>

\* A training call without few_shot on a chunk longer than num_queries:
\* the truncation and the second pass both happen.
C10_Witness ==
    /\ TrainingReturned
    /\ ~cfg.few_shot
    /\ Len(batch.actions[1]) > cfg.num_queries
    /\ Len(calls) = 2
    /\ calls[2].args.skill_ind # calls[1].args.skill_ind

====
